---- MODULE Spec2Model ----
(***************************************************************************)
(* keyHawk: scan a text file for API keys with named regex patterns, then  *)
(* optionally verify each match with a per-pattern shell command run in a  *)
(* process pool, and print a report.                                       *)
(*                                                                         *)
(* Strings that the program inspects character by character (the text, the *)
(* regexes, the tokens, the command output) are sequences of one-character *)
(* strings.  Pattern names are only compared for equality and are strings. *)
(* Python's True / False / None outcomes are "Valid" / "Invalid" /         *)
(* "Unknown".                                                              *)
(***************************************************************************)
EXTENDS Integers, Sequences, FiniteSets, TLC

VARIABLES
    regex_file,            \* regex.json on disk: [status, content]
    secrets_file,          \* the file named by --file: [status, content]
    vm_file,               \* verification_methods.yaml: [status, content]
    args,                  \* parsed command line: [validate, manual]
    pc,                    \* position of main()
    patterns,              \* APIFinder.patterns
    results,               \* APIFinder.results: name -> set of matches
    verification_methods,  \* main's verification_methods: name -> template
    tasks,                 \* the validation_tasks handed to pool.map
    validated_results,     \* main's validated_results: [is_none, d]
    executed,              \* every command subprocess.run was given
    stdout,                \* every line printed so far
    exit_status,           \* -1 while running, else the process exit status
    vt_in,                 \* argument of a direct validate_token call
    vt_out                 \* what that call returned

vars == <<regex_file, secrets_file, vm_file, args, pc, patterns, results,
          verification_methods, tasks, validated_results, executed, stdout,
          exit_status, vt_in, vt_out>>

----------------------------------------------------------------------------
(* Bounds of the model *)

MaxPatterns == 2
MaxTextLen == 3
PoolSize == 2
MaxTokLen == 4
MaxOutLen == 5

----------------------------------------------------------------------------
(* Characters and small helpers *)

Mailchimp == "Mailchimp API Key"
Heroku == "Heroku API Key"
TestKey == "Test Key"

\* str ordering of the three names used ("H" < "M" < "T")
NameRank(n) == CASE n = Heroku -> 1 [] n = Mailchimp -> 2 [] OTHER -> 3

\* ord() of the characters used
Ord(c) ==
    CASE c = "\n" -> 10 [] c = " " -> 32 [] c = "\"" -> 34 [] c = "(" -> 40
      [] c = "-" -> 45 [] c = "." -> 46 [] c = "0" -> 48 [] c = "1" -> 49
      [] c = "2" -> 50 [] c = "D" -> 68 [] c = "I" -> 73 [] c = "K" -> 75
      [] c = "O" -> 79 [] c = "[" -> 91 [] c = "a" -> 97 [] c = "b" -> 98
      [] c = "c" -> 99 [] c = "d" -> 100 [] c = "i" -> 105 [] c = "k" -> 107
      [] c = "o" -> 111 [] c = "s" -> 115 [] c = "u" -> 117 [] OTHER -> 120

\* \w of the re module
IsWord(c) == \/ (Ord(c) >= 48 /\ Ord(c) <= 57)
             \/ (Ord(c) >= 65 /\ Ord(c) <= 90)
             \/ (Ord(c) >= 97 /\ Ord(c) <= 122)

\* \d of the re module
IsDigit(c) == Ord(c) >= 48 /\ Ord(c) <= 57

\* str.lower() of one character
LowerChar(c) ==
    CASE c = "D" -> "d" [] c = "I" -> "i" [] c = "K" -> "k" [] c = "O" -> "o"
      [] OTHER -> c

\* str.lower()
Lower(s) == [i \in 1..Len(s) |-> LowerChar(s[i])]

\* `sub in s` for strings
In(sub, s) ==
    \E i \in 1..(Len(s) - Len(sub) + 1) : SubSeq(s, i, i + Len(sub) - 1) = sub

\* s < t for strings (lexicographic by code point)
RECURSIVE StrLess(_, _)
StrLess(s, t) ==
    IF t = <<>> THEN FALSE
    ELSE IF s = <<>> THEN TRUE
    ELSE IF Ord(Head(s)) # Ord(Head(t)) THEN Ord(Head(s)) < Ord(Head(t))
    ELSE StrLess(Tail(s), Tail(t))

\* sorted(set of strings)
RECURSIVE SortedStrs(_)
SortedStrs(S) ==
    IF S = {} THEN <<>>
    ELSE LET m == CHOOSE x \in S : \A y \in S \ {x} : StrLess(x, y)
         IN  <<m>> \o SortedStrs(S \ {m})

\* sorted(set of names)
RECURSIVE SortedNames(_)
SortedNames(S) ==
    IF S = {} THEN <<>>
    ELSE LET m == CHOOSE x \in S : \A y \in S : NameRank(x) <= NameRank(y)
         IN  <<m>> \o SortedNames(S \ {m})

RECURSIVE SumSeq(_)
SumSeq(s) == IF s = <<>> THEN 0 ELSE Head(s) + SumSeq(Tail(s))

EmptyDict == [n \in {} |-> <<>>]

\* one printed line: what it says (kind) and the values formatted into it
Line(kind, name, match, n, label, method) ==
    [kind |-> kind, name |-> name, match |-> match, n |-> n, label |-> label,
     method |-> method]

Msg(kind) == Line(kind, "", <<>>, 0, "", <<>>)

\* d[k] = v on a dict
DictSet(d, k, v) == [x \in (DOMAIN d) \cup {k} |-> IF x = k THEN v ELSE d[x]]

\* all sequences over S of length at most n
SeqsUpTo(S, n) == UNION {[1..k -> S] : k \in 0..n}

----------------------------------------------------------------------------
(* The regex engine, for regexes that are a sequence of atoms: a literal   *)
(* character, "." (any character but a newline), or "(" (an unterminated   *)
(* group, which re.compile rejects).                                       *)

\* re.compile(r'\b' + regex + r'\b') does not raise re.error
Compiles(regex) == \A k \in 1..Len(regex) : regex[k] # "("

\* \b between text[i] and text[i+1] (i = 0: the start, i = Len: the end)
Boundary(text, i) ==
    LET before == i >= 1 /\ IsWord(text[i])
        after  == i < Len(text) /\ IsWord(text[i + 1])
    IN  before # after

AtomMatches(atom, c) == IF atom = "." THEN c # "\n" ELSE atom = c

\* the wrapped regex matches text[i .. i + Len(regex) - 1]
MatchAt(regex, text, i) ==
    /\ i + Len(regex) - 1 <= Len(text)
    /\ Boundary(text, i - 1)
    /\ \A k \in 1..Len(regex) : AtomMatches(regex[k], text[i + k - 1])
    /\ Boundary(text, i - 1 + Len(regex))

\* pattern_re.findall(text) from position i on: leftmost, non-overlapping
RECURSIVE FindAllFrom(_, _, _)
FindAllFrom(regex, text, i) ==
    IF i > Len(text) + 1 THEN <<>>
    ELSE IF MatchAt(regex, text, i)
         THEN <<SubSeq(text, i, i + Len(regex) - 1)>>
              \o FindAllFrom(regex, text,
                             i + (IF Len(regex) = 0 THEN 1 ELSE Len(regex)))
         ELSE FindAllFrom(regex, text, i + 1)

FindAll(regex, text) == FindAllFrom(regex, text, 1)

SeqToSet(s) == {s[i] : i \in 1..Len(s)}

----------------------------------------------------------------------------
(* APIFinder.find_matches *)

\* the first loop, creating a key only for a pattern whose regex compiles
RECURSIVE InitResultsCompiled(_, _)
InitResultsCompiled(res, pats) ==
    IF pats = <<>> THEN res
    ELSE InitResultsCompiled(
             IF Compiles(Head(pats).regex)
             THEN DictSet(res, Head(pats).name, {}) ELSE res,
             Tail(pats))

\* the first loop: self.results[pattern['name']] = set()
RECURSIVE InitResults(_, _)
InitResults(res, pats) ==
    IF pats = <<>> THEN res
    ELSE InitResults(DictSet(res, Head(pats).name, {}), Tail(pats))

\* the message printed while scanning one pattern
ScanLine(pattern, text) ==
    IF ~Compiles(pattern.regex)
    THEN Line("warning", pattern.name, <<>>, 0, "", pattern.regex)
    ELSE IF FindAll(pattern.regex, text) # <<>>
         THEN Line("found", pattern.name, <<>>,
                   Len(FindAll(pattern.regex, text)), "", <<>>)
         ELSE Line("no_matches", pattern.name, <<>>, 0, "", <<>>)

\* one iteration of the second loop: the results after scanning one pattern
ScanOne(res, pattern, text) ==
    IF Compiles(pattern.regex) /\ FindAll(pattern.regex, text) # <<>>
    THEN DictSet(res, pattern.name,
                 res[pattern.name] \cup SeqToSet(FindAll(pattern.regex, text)))
    ELSE res

\* the second loop, aborted by the first regex that does not compile
RECURSIVE ScanLoopAborting(_, _, _)
ScanLoopAborting(res, pats, text) ==
    IF pats = <<>> \/ ~Compiles(Head(pats).regex) THEN res
    ELSE ScanLoopAborting(ScanOne(res, Head(pats), text), Tail(pats), text)

\* the second loop
RECURSIVE ScanLoop(_, _, _)
ScanLoop(res, pats, text) ==
    IF pats = <<>> THEN res
    ELSE ScanLoop(ScanOne(res, Head(pats), text), Tail(pats), text)

RECURSIVE ScanLines(_, _)
ScanLines(pats, text) ==
    IF pats = <<>> THEN <<>>
    ELSE <<ScanLine(Head(pats), text)>> \o ScanLines(Tail(pats), text)

\* self.results after find_matches, starting from self.results = res0
find_matches(res0, pats, text) == ScanLoop(InitResults(res0, pats), pats, text)


----------------------------------------------------------------------------
(* validate_token *)

\* str.replace of a placeholder of the command template
RECURSIVE Replace(_, _, _)
Replace(method, placeholder, value) ==
    IF method = <<>> THEN <<>>
    ELSE (IF Head(method) = placeholder THEN value ELSE <<Head(method)>>)
         \o Replace(Tail(method), placeholder, value)

\* $ of the re module after position j: the end, or before a final newline
AtEnd(s, j) == j = Len(s) \/ (j = Len(s) - 1 /\ s[Len(s)] = "\n")

\* us\d{1,2}$ matched at position i (greedy: two digits are tried first)
DcAt(s, i) ==
    IF i + 1 <= Len(s) /\ s[i] = "u" /\ s[i + 1] = "s"
    THEN IF i + 3 <= Len(s) /\ IsDigit(s[i + 2]) /\ IsDigit(s[i + 3])
            /\ AtEnd(s, i + 3)
         THEN SubSeq(s, i, i + 3)
         ELSE IF i + 2 <= Len(s) /\ IsDigit(s[i + 2]) /\ AtEnd(s, i + 2)
              THEN SubSeq(s, i, i + 2)
              ELSE <<>>
    ELSE <<>>

\* re.search(r'us\d{1,2}$', s): group(0) of the leftmost match, <<>> for None
DcSearch(s) ==
    IF \E i \in 1..Len(s) : DcAt(s, i) # <<>>
    THEN DcAt(s, CHOOSE i \in 1..Len(s) :
                     /\ DcAt(s, i) # <<>>
                     /\ \A j \in 1..(i - 1) : DcAt(s, j) = <<>>)
    ELSE <<>>

\* what validate_token hands back: the pair it returns (value, outcome),
\* whether it raised instead, and the commands it gave to subprocess.run
Ret(value, outcome, ran) ==
    [raised |-> FALSE, value |-> value, outcome |-> outcome, ran |-> ran]

Raise(value, ran) ==
    [raised |-> TRUE, value |-> value, outcome |-> "Invalid", ran |-> ran]

\* the classification with the "ok" and "id" tests made case-sensitive
ClassifyCaseSensitive(token_name, rc, out) ==
    IF rc = 0
    THEN IF token_name = Heroku
         THEN IF out # <<>> /\ Head(out) = "[" /\ In(<<"\"", "i", "d", "\"">>, out)
              THEN "Valid" ELSE "Invalid"
         ELSE IF \/ In(<<"2", "0", "0">>, out)
                 \/ In(<<"i", "d">>, out)
                 \/ In(<<"o", "k">>, out)
              THEN "Valid" ELSE "Invalid"
    ELSE "Invalid"

\* lines 126-134: the outcome for an exit status and the captured stdout
Classify(token_name, rc, out) ==
    IF rc = 0
    THEN IF token_name = Heroku
         THEN IF out # <<>> /\ Head(out) = "[" /\ In(<<"\"", "i", "d", "\"">>, out)
              THEN "Valid" ELSE "Invalid"
         ELSE IF \/ In(<<"2", "0", "0">>, out)
                 \/ In(<<"i", "d">>, Lower(out))
                 \/ In(<<"o", "k">>, Lower(out))
              THEN "Valid" ELSE "Invalid"
    ELSE "Invalid"

\* lines 124-136 without the try/except
RunCommandUnguarded(token_name, token_value, method, resp) ==
    IF resp.kind = "raise"
    THEN Raise(token_value, <<method>>)
    ELSE Ret(token_value, Classify(token_name, resp.rc, resp.out), <<method>>)

\* lines 124-136: subprocess.run(method) answers resp
RunCommand(token_name, token_value, method, resp) ==
    IF resp.kind = "raise"
    THEN Ret(token_value, "Invalid", <<method>>)
    ELSE Ret(token_value, Classify(token_name, resp.rc, resp.out), <<method>>)

\* lines 111-121: validate_token returns before it builds a command
ReturnsEarly(token_name, token_value, vms) ==
    \/ token_name \notin DOMAIN vms
    \/ token_name = Mailchimp /\ DcSearch(token_value) = <<>>

\* lines 111-121: what it then returns
EarlyReturn(token_name, token_value, vms) ==
    IF token_name \notin DOMAIN vms
    THEN Ret(token_value, "Unknown", <<>>)
    ELSE Ret(token_value, "Invalid", <<>>)

\* lines 114-123: the command given to subprocess.run
Method(token_name, token_value, vms) ==
    Replace(IF token_name = Mailchimp
            THEN Replace(vms[token_name], "$dc$", DcSearch(token_value))
            ELSE vms[token_name],
            "$token$", token_value)

\* validate_token((token_name, token_value, verification_methods)), with
\* resp what the shell answers if a command is run
validate_token(token_name, token_value, vms, resp) ==
    IF ReturnsEarly(token_name, token_value, vms)
    THEN EarlyReturn(token_name, token_value, vms)
    ELSE RunCommand(token_name, token_value,
                    Method(token_name, token_value, vms), resp)

----------------------------------------------------------------------------
(* APIFinder.display_results *)

\* lines 72-81: the line printed for one match
MatchLine(name, match, validated) ==
    IF ~validated.is_none /\ DOMAIN validated.d # {}
       /\ match \in DOMAIN validated.d
    THEN Line("match", name, match, 0,
              CASE validated.d[match] = "Unknown" -> "No verification method"
                [] validated.d[match] = "Valid" -> "Valid"
                [] OTHER -> "Invalid",
              <<>>)
    ELSE Line("match", name, match, 0, "", <<>>)

\* lines 83-88: the manual test line under one match, if any
ManualLines(name, match, manual, vms) ==
    IF manual /\ DOMAIN vms # {} /\ name \in DOMAIN vms
    THEN <<Line("manual", name, match, 0, "",
                IF name = Mailchimp
                THEN Replace(Replace(vms[name], "$token$", match), "$dc$",
                             IF DcSearch(match) # <<>> THEN DcSearch(match)
                             ELSE <<"u", "s", "1">>)
                ELSE Replace(vms[name], "$token$", match))>>
    ELSE <<>>

\* lines 71-88: the lines for the sorted matches of one pattern name
RECURSIVE MatchLines(_, _, _, _, _)
MatchLines(name, sorted, validated, manual, vms) ==
    IF sorted = <<>> THEN <<>>
    ELSE <<MatchLine(name, Head(sorted), validated)>>
         \o ManualLines(name, Head(sorted), manual, vms)
         \o MatchLines(name, Tail(sorted), validated, manual, vms)

\* lines 66-88: the sections of the sorted pattern names
RECURSIVE Sections(_, _, _, _, _)
Sections(names, res, validated, manual, vms) ==
    IF names = <<>> THEN <<>>
    ELSE (IF res[Head(names)] # {}
          THEN <<Line("section", Head(names), <<>>,
                      Cardinality(res[Head(names)]), "", <<>>)>>
               \o MatchLines(Head(names), SortedStrs(res[Head(names)]),
                             validated, manual, vms)
          ELSE <<>>)
         \o Sections(Tail(names), res, validated, manual, vms)

\* the summary counting each distinct string once over all patterns
TotalUniqueStrings(res) == Cardinality(UNION {res[n] : n \in DOMAIN res})

\* line 93: sum(len(matches) for matches in self.results.values())
TotalUnique(res) ==
    LET names == SortedNames(DOMAIN res)
    IN  SumSeq([i \in 1..Len(names) |-> Cardinality(res[names[i]])])

\* display_results(validated_results, manual, verification_methods):
\* everything it prints
display_results(res, validated, manual, vms) ==
    <<Msg("header")>>
    \o Sections(SortedNames(DOMAIN res), res, validated, manual, vms)
    \o (IF \A n \in DOMAIN res : res[n] = {}
        THEN <<Msg("nothing_found")>>
        ELSE <<Line("total", "", <<>>, TotalUnique(res), "", <<>>)>>)
    \o <<Msg("footer")>>

----------------------------------------------------------------------------
(* validate_all_tokens *)

\* the keys of self.results in insertion order
RECURSIVE KeysInOrder(_, _)
KeysInOrder(pats, seen) ==
    IF pats = <<>> THEN <<>>
    ELSE IF Head(pats).name \in seen THEN KeysInOrder(Tail(pats), seen)
    ELSE <<Head(pats).name>>
         \o KeysInOrder(Tail(pats), seen \cup {Head(pats).name})

\* the orders in which iterating a set may yield its elements
Orders(S) ==
    {s \in [1..Cardinality(S) -> S] :
        \A i, j \in 1..Cardinality(S) : i # j => s[i] # s[j]}

NoResp == [kind |-> "none", rc |-> 0, out |-> <<>>]

Task(name, match) ==
    [name |-> name, match |-> match, state |-> "pending", resp |-> NoResp,
     raised |-> FALSE, outcome |-> "Unknown"]

\* lines 140-143: the task lists the two loops can build; `order` gives, for
\* each name, the order in which its set is iterated
RECURSIVE TaskList(_, _, _)
TaskList(names, res, order) ==
    IF names = <<>> THEN <<>>
    ELSE [i \in 1..Len(order[Head(names)]) |->
             Task(Head(names), order[Head(names)][i])]
         \o TaskList(Tail(names), res, order)

\* pool.map hands its list back as soon as one task is done
MapReturnsEarly(ts) == \E i \in 1..Len(ts) : ts[i].state = "done"

\* line 146: pool.map returns when every task has returned
MapReturns(ts) == \A i \in 1..Len(ts) : ts[i].state = "done"

\* line 148: dict(validated); a later pair replaces an earlier one
RECURSIVE DictOf(_, _)
DictOf(d, ts) ==
    IF ts = <<>> THEN d
    ELSE DictOf(DictSet(d, Head(ts).match, Head(ts).outcome), Tail(ts))

None == [is_none |-> TRUE, d |-> EmptyDict]

----------------------------------------------------------------------------
(* main *)

\* line 176 taken for --manual as well
ShouldValidateOrManual(a) == a.validate \/ a.manual

\* line 176: if args.validate
ShouldValidate(a) == a.validate

NoCall == [set |-> FALSE, name |-> "", value |-> <<>>, vms |-> EmptyDict,
           resp |-> NoResp]

NoRet == [set |-> FALSE, raised |-> FALSE, value |-> <<>>,
          outcome |-> "Unknown", ran |-> <<>>]

Exit(lines, status) ==
    /\ pc' = "exit"
    /\ stdout' = stdout \o lines
    /\ exit_status' = status

env == <<regex_file, secrets_file, vm_file, args, vt_in, vt_out>>

\* line 171: APIFinder(args.file), that is _load_patterns
Construct ==
    /\ pc = "start"
    /\ IF regex_file.status = "ok"
       THEN /\ patterns' = regex_file.content
            /\ results' = EmptyDict
            /\ pc' = "constructed"
            /\ UNCHANGED <<stdout, exit_status>>
       ELSE /\ Exit(<<Msg(IF regex_file.status = "missing"
                          THEN "error_regex_not_found"
                          ELSE "error_regex_invalid_json")>>, 1)
            /\ UNCHANGED <<patterns, results>>
    /\ UNCHANGED <<env, verification_methods, tasks, validated_results,
                   executed>>

\* line 172: finder.find_matches()
FindMatches ==
    /\ pc = "constructed"
    /\ IF secrets_file.status = "ok"
       THEN /\ results' = find_matches(results, patterns, secrets_file.content)
            /\ stdout' = stdout \o <<Msg("scanning")>>
                         \o ScanLines(patterns, secrets_file.content)
            /\ pc' = "scanned"
            /\ UNCHANGED exit_status
       ELSE /\ Exit(<<Msg("error_secrets_not_found")>>, 1)
            /\ UNCHANGED results
    /\ UNCHANGED <<env, patterns, verification_methods, tasks,
                   validated_results, executed>>

\* line 175: load_verification_methods()
LoadVerificationMethods ==
    /\ pc = "scanned"
    /\ args.validate \/ args.manual
    /\ IF vm_file.status = "ok"
       THEN /\ verification_methods' = vm_file.content
            /\ pc' = "loaded"
            /\ UNCHANGED <<stdout, exit_status>>
       ELSE /\ Exit(<<Msg(IF vm_file.status = "missing"
                          THEN "error_vm_not_found"
                          ELSE "error_vm_invalid_yaml")>>, 1)
            /\ UNCHANGED verification_methods
    /\ UNCHANGED <<env, patterns, results, tasks, validated_results, executed>>

\* lines 139-146: validate_all_tokens builds the tasks and calls pool.map
Dispatch ==
    /\ pc = "loaded"
    /\ ShouldValidate(args)
    /\ \E order \in [DOMAIN results -> UNION {Orders(results[n]) : n \in DOMAIN results}] :
          /\ \A n \in DOMAIN results : order[n] \in Orders(results[n])
          /\ tasks' = TaskList(KeysInOrder(patterns, {}), results, order)
    /\ pc' = "mapping"
    /\ stdout' = stdout \o <<Msg("validating")>>
    /\ UNCHANGED <<env, patterns, results, verification_methods,
                   validated_results, executed, exit_status>>

\* the tasks a pool worker is busy with
Busy(ts) == {j \in 1..Len(ts) : ts[j].state \in {"running", "waiting"}}

\* a pool worker takes the next task of the queue and enters validate_token
WorkerStart(i) ==
    /\ pc = "mapping"
    /\ tasks[i].state = "pending"
    /\ \A j \in 1..(i - 1) : tasks[j].state # "pending"
    /\ Cardinality(Busy(tasks)) < PoolSize
    /\ tasks' = [tasks EXCEPT ![i].state = "running"]
    /\ UNCHANGED <<env, pc, patterns, results, verification_methods,
                   validated_results, executed, stdout, exit_status>>

\* lines 110-125: the worker's validate_token returns without a command, or
\* gives its command to subprocess.run and waits for the child process
WorkerRun(i) ==
    /\ pc = "mapping"
    /\ tasks[i].state = "running"
    /\ IF ReturnsEarly(tasks[i].name, tasks[i].match, verification_methods)
       THEN /\ tasks' = [tasks EXCEPT ![i] =
                            [@ EXCEPT !.state = "done",
                                      !.outcome =
                                          EarlyReturn(tasks[i].name,
                                                      tasks[i].match,
                                                      verification_methods).outcome]]
            /\ UNCHANGED executed
       ELSE /\ tasks' = [tasks EXCEPT ![i].state = "waiting"]
            /\ executed' = Append(executed,
                                  [name |-> tasks[i].name,
                                   match |-> tasks[i].match,
                                   method |-> Method(tasks[i].name,
                                                     tasks[i].match,
                                                     verification_methods)])
    /\ UNCHANGED <<env, pc, patterns, results, verification_methods,
                   validated_results, stdout, exit_status>>

\* lines 125-136: subprocess.run answers resp (the child has exited, or the
\* call raised) and validate_token returns
WorkerFinish(i, resp) ==
    /\ pc = "mapping"
    /\ tasks[i].state = "waiting"
    /\ LET r == RunCommand(tasks[i].name, tasks[i].match,
                           Method(tasks[i].name, tasks[i].match,
                                  verification_methods),
                           resp)
       IN  tasks' = [tasks EXCEPT ![i] =
                        [@ EXCEPT !.state = "done",
                                  !.resp = resp,
                                  !.raised = r.raised,
                                  !.outcome = r.outcome]]
    /\ UNCHANGED <<env, pc, patterns, results, verification_methods,
                   validated_results, executed, stdout, exit_status>>

\* lines 146-148 and 177: pool.map returns (or re-raises what a task raised)
\* and validate_all_tokens returns dict(validated)
Gather ==
    /\ pc = "mapping"
    /\ MapReturns(tasks)
    /\ IF \E i \in 1..Len(tasks) : tasks[i].raised
       THEN /\ Exit(<<Msg("traceback")>>, 1)
            /\ UNCHANGED validated_results
       ELSE /\ validated_results' = [is_none |-> FALSE, d |-> DictOf(EmptyDict, tasks)]
            /\ pc' = "validated"
            /\ UNCHANGED <<stdout, exit_status>>
    /\ UNCHANGED <<env, patterns, results, verification_methods, tasks,
                   executed>>

Done(lines) ==
    /\ stdout' = stdout \o lines
    /\ pc' = "done"
    /\ exit_status' = 0
    /\ UNCHANGED <<env, patterns, results, verification_methods, tasks,
                   validated_results, executed>>

\* line 178: finder.display_results(validated_results, args.manual, ...)
DisplayValidated ==
    /\ pc = "validated"
    /\ Done(display_results(results, validated_results, args.manual,
                            verification_methods))

\* line 180: finder.display_results(None, args.manual, verification_methods)
DisplayManual ==
    /\ pc = "loaded"
    /\ ~ShouldValidate(args)
    /\ Done(display_results(results, None, args.manual, verification_methods))

\* line 182: finder.display_results()
DisplayPlain ==
    /\ pc = "scanned"
    /\ ~(args.validate \/ args.manual)
    /\ Done(display_results(results, None, FALSE, EmptyDict))

\* a direct call of validate_token
CallValidateToken ==
    /\ pc = "call"
    /\ LET r == validate_token(vt_in.name, vt_in.value, vt_in.vms, vt_in.resp)
       IN  vt_out' = [set |-> TRUE, raised |-> r.raised, value |-> r.value,
                      outcome |-> r.outcome, ran |-> r.ran]
    /\ pc' = "returned"
    /\ UNCHANGED <<regex_file, secrets_file, vm_file, args, vt_in, patterns,
                   results, verification_methods, tasks, validated_results,
                   executed, stdout, exit_status>>

----------------------------------------------------------------------------
(* The inputs *)

Names == {Heroku, Mailchimp, TestKey}

\* the command template of a pattern name, as verification_methods.yaml
\* gives it: "c <token>", and for Mailchimp "c<dc> <token>"
Template(n) ==
    IF n = Mailchimp THEN <<"c", "$dc$", " ", "$token$">>
    ELSE <<"c", " ", "$token$">>

Registry(S) == [n \in S |-> Template(n)]

FileOk(content) == [status |-> "ok", content |-> content]
FileBad(status, content) == [status |-> status, content |-> content]

PatternDefs(names, regexes) == [name : names, regex : regexes]

Raises == [kind |-> "raise", rc |-> 0, out |-> <<>>]
Exits(rc, out) == [kind |-> "exit", rc |-> rc, out |-> out]

\* scanning: two names, four regexes, texts of words and spaces
ScanNames == {Heroku, TestKey}
ScanRegexes == {<<"a">>, <<".">>, <<"(">>, <<"a", ".">>}
ScanChars == {"a", "b", " "}

\* the whole run: pattern lists of distinct names, tokens "a" and " "
PipeNames == {Heroku, TestKey}
PipeRegexes == {<<"a">>, <<".">>}
PipeChars == {"a", " "}
PipePatternLists ==
    {c \in SeqsUpTo(PatternDefs(PipeNames, PipeRegexes), Cardinality(PipeNames)) :
        \A i, j \in 1..Len(c) : i # j => c[i].name # c[j].name}
PipeResponses == {Raises, Exits(0, <<"2", "0", "0">>), Exits(1, <<>>)}

\* validate_token alone: tokens over the characters of a datacenter suffix,
\* a character before it, and the newline a matched string may end in
TokChars == {"k", "u", "s", "2", "\n"}
\* command outputs: over the characters of the Heroku and the "id" / "ok"
\* tests, or over those of the "200" test
OutCharsets == {{"[", "\"", "i", "d", "O", "k"}, {"2", "0", "k", "["}}
Outputs == UNION {SeqsUpTo(cs, MaxOutLen) : cs \in OutCharsets}

InitRun ==
    /\ pc = "start"
    /\ patterns = <<>>
    /\ results = EmptyDict
    /\ verification_methods = EmptyDict
    /\ tasks = <<>>
    /\ validated_results = None
    /\ executed = <<>>
    /\ stdout = <<>>
    /\ exit_status = -1
    /\ vt_in = NoCall
    /\ vt_out = NoRet

\* a run of main with any flags
Init ==
    /\ InitRun
    /\ regex_file \in
         {FileBad("missing", <<>>), FileBad("invalid", <<>>)}
         \cup {FileOk(c) : c \in PipePatternLists}
    /\ secrets_file \in
         {FileBad("missing", <<>>)}
         \cup {FileOk(c) : c \in SeqsUpTo(PipeChars, MaxTextLen)}
    /\ vm_file \in
         {FileBad("missing", EmptyDict), FileBad("invalid", EmptyDict)}
         \cup {FileOk(Registry(S)) : S \in SUBSET PipeNames}
    /\ args \in [validate : BOOLEAN, manual : BOOLEAN]

\* a run of main without --validate and --manual
InitScan ==
    /\ InitRun
    /\ regex_file \in
         {FileBad("missing", <<>>), FileBad("invalid", <<>>)}
         \cup {FileOk(c) : c \in SeqsUpTo(PatternDefs(ScanNames, ScanRegexes),
                                          MaxPatterns)}
    /\ secrets_file \in
         {FileBad("missing", <<>>)}
         \cup {FileOk(c) : c \in SeqsUpTo(ScanChars, MaxTextLen)}
    /\ vm_file = FileBad("missing", EmptyDict)
    /\ args = [validate |-> FALSE, manual |-> FALSE]

InitCall ==
    /\ pc = "call"
    /\ regex_file = FileBad("missing", <<>>)
    /\ secrets_file = FileBad("missing", <<>>)
    /\ vm_file = FileBad("missing", EmptyDict)
    /\ args = [validate |-> FALSE, manual |-> FALSE]
    /\ patterns = <<>>
    /\ results = EmptyDict
    /\ verification_methods = EmptyDict
    /\ tasks = <<>>
    /\ validated_results = None
    /\ executed = <<>>
    /\ stdout = <<>>
    /\ exit_status = -1
    /\ vt_out = NoRet

\* validate_token on any short token, with and without a registry entry
InitToken ==
    /\ InitCall
    /\ vt_in \in [set : {TRUE}, name : Names,
                  value : SeqsUpTo(TokChars, MaxTokLen),
                  vms : {Registry(Names), EmptyDict},
                  resp : PipeResponses]

\* validate_token on any short command output
InitOutput ==
    /\ InitCall
    /\ vt_in \in [set : {TRUE}, name : Names,
                  value : {<<"k", "u", "s", "2">>},
                  vms : {Registry(Names)},
                  resp : {Exits(rc, out) : rc \in {0, 1},
                                           out \in Outputs}]

Next ==
    \/ Construct
    \/ FindMatches
    \/ LoadVerificationMethods
    \/ Dispatch
    \/ \E i \in 1..Len(tasks) : WorkerStart(i)
    \/ \E i \in 1..Len(tasks) : WorkerRun(i)
    \/ \E i \in 1..Len(tasks) : \E resp \in PipeResponses : WorkerFinish(i, resp)
    \/ Gather
    \/ DisplayValidated
    \/ DisplayManual
    \/ DisplayPlain

NextScan == Construct \/ FindMatches \/ DisplayPlain

NextCall == CallValidateToken

Spec == Init /\ [][Next]_vars

SpecScan == InitScan /\ [][NextScan]_vars

SpecToken == InitToken /\ [][NextCall]_vars

SpecOutput == InitOutput /\ [][NextCall]_vars

----------------------------------------------------------------------------
(* What the claims speak of *)

PatternNames == {patterns[i].name : i \in 1..Len(patterns)}

ScanCompleted == pc \notin {"start", "constructed", "call", "returned"}
                 /\ \E k \in 1..Len(stdout) : stdout[k].kind = "scanning"

\* the (pattern name, matched string) pairs of the MatchSet
Pairs == UNION {{<<n, m>> : m \in results[n]} : n \in DOMAIN results}

LinesOf(kind) == {k \in 1..Len(stdout) : stdout[k].kind = kind}

ReportStarted == LinesOf("header") # {}

\* the patterns without the i-th
Without(pats, i) == SubSeq(pats, 1, i - 1) \o SubSeq(pats, i + 1, Len(pats))

\* the string ends in "us" and two digits (4), in "us" and one digit (3),
\* or in neither (0)
DcSuffixLen(v) ==
    LET n == Len(v)
    IN  IF n >= 4 /\ v[n - 3] = "u" /\ v[n - 2] = "s"
           /\ v[n - 1] \in {"0", "1", "2"} /\ v[n] \in {"0", "1", "2"}
        THEN 4
        ELSE IF n >= 3 /\ v[n - 2] = "u" /\ v[n - 1] = "s"
                /\ v[n] \in {"0", "1", "2"}
             THEN 3
             ELSE 0

\* the classification rule of the specification, position by position
SaysValid(name, rc, out) ==
    /\ rc = 0
    /\ IF name = Heroku
       THEN /\ Len(out) >= 1
            /\ out[1] = "["
            /\ \E i \in 1..(Len(out) - 3) :
                  /\ out[i] = "\"" /\ out[i + 1] = "i"
                  /\ out[i + 2] = "d" /\ out[i + 3] = "\""
       ELSE \/ \E i \in 1..(Len(out) - 2) :
                  out[i] = "2" /\ out[i + 1] = "0" /\ out[i + 2] = "0"
            \/ \E i \in 1..(Len(out) - 1) :
                  out[i] \in {"i", "I"} /\ out[i + 1] \in {"d", "D"}
            \/ \E i \in 1..(Len(out) - 1) :
                  out[i] \in {"o", "O"} /\ out[i + 1] \in {"k", "K"}

\* how many commands were run for one (pattern name, matched string) pair
RunsFor(n, m) ==
    Cardinality({k \in 1..Len(executed) :
                    executed[k].name = n /\ executed[k].match = m})

----------------------------------------------------------------------------
(* The claims *)

\* C1: once find_matches has completed, the keys of the MatchSet are exactly
\* the names of the pattern set: a name whose pattern found nothing or whose
\* regex did not compile is a key, and there is no other key.
C1_KeysAreThePatternNames ==
    ScanCompleted =>
        /\ DOMAIN results = PatternNames
        /\ \A n \in DOMAIN results :
              results[n] \subseteq
                  UNION {SeqToSet(FindAll(patterns[i].regex, secrets_file.content)) :
                            i \in {j \in 1..Len(patterns) :
                                      /\ patterns[j].name = n
                                      /\ Compiles(patterns[j].regex)}}

\* C1 witness: a completed scan with a pattern that did not compile, whose
\* name belongs to no other pattern and is a key, beside a pattern that matched.
C1_Witness ==
    /\ pc = "scanned"
    /\ \E i, j \in 1..Len(patterns) :
          /\ ~Compiles(patterns[i].regex)
          /\ patterns[j].name # patterns[i].name
          /\ patterns[i].name \in DOMAIN results
          /\ results[patterns[j].name] # {}

\* C9: a pattern whose regex does not compile is skipped and the scan goes
\* on: it reaches its end, and every match set is what scanning the pattern
\* set without that pattern gives (empty for a name only that pattern has).
C9_BadRegexIsSkipped ==
    ScanCompleted =>
        \A i \in 1..Len(patterns) :
            ~Compiles(patterns[i].regex) =>
                LET ref == find_matches(EmptyDict, Without(patterns, i),
                                        secrets_file.content)
                IN  /\ \A n \in DOMAIN results :
                          results[n] = IF n \in DOMAIN ref THEN ref[n] ELSE {}
                    /\ \E k \in LinesOf("warning") :
                          stdout[k].name = patterns[i].name

\* C9 witness: a completed scan in which a pattern after one that did not
\* compile found a match.
C9_Witness ==
    /\ pc = "scanned"
    /\ \E i, j \in 1..Len(patterns) :
          /\ i < j
          /\ ~Compiles(patterns[i].regex)
          /\ Compiles(patterns[j].regex)
          /\ FindAll(patterns[j].regex, secrets_file.content) # <<>>
          /\ results[patterns[j].name] # {}

\* C10: the report has the single "nothing found" line and no section exactly
\* when every match set is empty; otherwise it has one total line, whose
\* number is the number of (pattern name, matched string) pairs.
C10_ReportSummary ==
    pc = "done" =>
        IF Pairs = {}
        THEN /\ Cardinality(LinesOf("nothing_found")) = 1
             /\ LinesOf("section") = {} /\ LinesOf("match") = {}
             /\ LinesOf("total") = {}
        ELSE /\ LinesOf("nothing_found") = {}
             /\ Cardinality(LinesOf("total")) = 1
             /\ \A k \in LinesOf("total") : stdout[k].n = Cardinality(Pairs)
             /\ Cardinality(LinesOf("match")) = Cardinality(Pairs)
             /\ \A n \in DOMAIN results :
                   results[n] # {} =>
                       \E k \in LinesOf("section") :
                           /\ stdout[k].name = n
                           /\ stdout[k].n = Cardinality(results[n])

\* C10 witness: a report whose total is 2 for one string matched under two
\* names, the string occurring twice in the text.
C10_Witness ==
    /\ pc = "done"
    /\ \E n1, n2 \in DOMAIN results :
          /\ n1 # n2
          /\ results[n1] = results[n2]
          /\ Cardinality(results[n1]) = 1
    /\ \E k \in LinesOf("found") : stdout[k].n = 2
    /\ \E k \in LinesOf("total") : stdout[k].n = 2

\* C6: for "Mailchimp API Key" with a registry entry, a token that does not
\* end in "us" and one or two digits is Invalid and no command is run; one
\* that does has $dc$ replaced by that suffix, the command is run once, and
\* the outcome is that of the generic classification.  The code's search
\* ends in $, which also matches before a final newline: for the token
\* "kus2\n" the command is run with us2 for $dc$, so the code violates this.
C6_MailchimpRule ==
    (pc = "returned" /\ vt_in.name = Mailchimp
        /\ Mailchimp \in DOMAIN vt_in.vms) =>
        LET v == vt_in.value
            k == DcSuffixLen(v)
        IN  /\ ~vt_out.raised
            /\ IF k = 0
               THEN vt_out.outcome = "Invalid" /\ vt_out.ran = <<>>
               ELSE /\ vt_out.ran =
                          << <<"c">> \o SubSeq(v, Len(v) - k + 1, Len(v))
                             \o <<" ">> \o v >>
                    /\ (vt_out.outcome = "Valid") =
                          (/\ vt_in.resp.kind = "exit"
                           /\ SaysValid(TestKey, vt_in.resp.rc, vt_in.resp.out))
                    /\ vt_out.outcome \in {"Valid", "Invalid"}

\* C7: when the command of a pattern name with a registry entry has run, a
\* non-zero exit status gives Invalid; with exit status zero the outcome is
\* Valid exactly when, for "Heroku API Key", the output begins with [ and
\* contains "id" in quotes, and for any other name it contains 200, or id or
\* ok in any case; otherwise Invalid.
C7_Classification ==
    (pc = "returned" /\ vt_in.name \in DOMAIN vt_in.vms
        /\ vt_in.resp.kind = "exit" /\ vt_out.ran # <<>>) =>
        /\ vt_out.outcome \in {"Valid", "Invalid"}
        /\ (vt_out.outcome = "Valid") =
              SaysValid(vt_in.name, vt_in.resp.rc, vt_in.resp.out)
        /\ vt_in.resp.rc # 0 => vt_out.outcome = "Invalid"

\* C7 witness: exit status 0 and an output with "Ok" in it, Valid for a
\* generic name, while the same state's rule for Heroku would not hold.
C7_Witness ==
    /\ pc = "returned"
    /\ vt_in.name = TestKey
    /\ vt_in.resp.rc = 0
    /\ In(<<"O", "k">>, vt_in.resp.out)
    /\ ~In(<<"i", "d">>, vt_in.resp.out)
    /\ vt_out.outcome = "Valid"

\* C2 (as claimed): in the report of a validated run, every match of a
\* pattern name without a registry entry has the outcome Unknown recorded for
\* its string and is printed with the "No verification method" label, also
\* when the same string is matched under a name that has an entry.
C2_UnknownForMissingMethod ==
    (pc = "done" /\ args.validate) =>
        \A n \in (DOMAIN results) \ (DOMAIN verification_methods) :
            \A m \in results[n] :
                /\ m \in DOMAIN validated_results.d
                /\ validated_results.d[m] = "Unknown"
                /\ \E k \in LinesOf("match") :
                      /\ stdout[k].name = n
                      /\ stdout[k].match = m
                      /\ stdout[k].label = "No verification method"

\* C3: when verification is requested, no line of the report is printed
\* before every dispatched task has returned: from the moment
\* validate_all_tokens has returned, no task is pending or running, a task
\* was dispatched for every pair of the MatchSet, and every matched string
\* has an entry in the VerificationResult.
C3_ReportAfterAllTasks ==
    (args.validate /\ (pc = "validated" \/ ReportStarted)) =>
        /\ \A i \in 1..Len(tasks) : tasks[i].state = "done"
        /\ {<<tasks[i].name, tasks[i].match>> : i \in 1..Len(tasks)} = Pairs
        /\ ~validated_results.is_none
        /\ \A n \in DOMAIN results :
              results[n] \subseteq DOMAIN validated_results.d

\* C3 witness: a report printed after the tasks of a pool with more tasks
\* than workers have all returned.
C3_Witness ==
    /\ pc = "done"
    /\ args.validate
    /\ ReportStarted
    /\ Len(tasks) > PoolSize
    /\ \E i \in 1..Len(tasks) : tasks[i].resp.kind = "exit"

\* C4 (as claimed): when a configuration source is missing or malformed, the
\* run ends with a non-zero exit status and the input text has not been
\* scanned in that run.
C4_NoScanOnConfigError ==
    \A k \in 1..Len(stdout) :
        stdout[k].kind \in {"error_regex_not_found", "error_regex_invalid_json",
                            "error_vm_not_found", "error_vm_invalid_yaml"} =>
            /\ pc = "exit"
            /\ exit_status # 0
            /\ LinesOf("scanning") = {}
            /\ results = EmptyDict

\* C5: a command that fails to launch or raises makes its own task Invalid
\* and nothing else: no task raises, pool.map does not re-raise, every task
\* runs to completion with the outcome its own answer gives, and the
\* VerificationResult is produced.
C5_FailureIsolation ==
    /\ LinesOf("traceback") = {}
    /\ \A i \in 1..Len(tasks) :
          tasks[i].state = "done" =>
              /\ ~tasks[i].raised
              /\ tasks[i].resp.kind = "raise" => tasks[i].outcome = "Invalid"
              /\ tasks[i].resp.kind = "exit" =>
                    (tasks[i].outcome = "Valid") =
                        SaysValid(tasks[i].name, tasks[i].resp.rc,
                                  tasks[i].resp.out)
              /\ tasks[i].name \notin DOMAIN verification_methods =>
                    tasks[i].outcome = "Unknown"
    /\ (pc = "mapping" /\ \A i \in 1..Len(tasks) : tasks[i].state = "done")
          => ENABLED Gather
    /\ (args.validate /\ pc \in {"validated", "done"}) =>
          /\ \A i \in 1..Len(tasks) : tasks[i].state = "done"
          /\ ~validated_results.is_none
          /\ DOMAIN validated_results.d
                = {tasks[i].match : i \in 1..Len(tasks)}

\* C5 witness: the VerificationResult was produced although the command of
\* one task raised, a task after it being Valid.
C5_Witness ==
    /\ pc = "validated"
    /\ \E i, j \in 1..Len(tasks) :
          /\ i < j
          /\ tasks[i].resp.kind = "raise"
          /\ tasks[i].outcome = "Invalid"
          /\ tasks[j].outcome = "Valid"

\* C8: without --validate no command is ever run, also when --manual prints
\* the substituted commands; with --validate at most one command is run for
\* each (pattern name, matched string) pair.
C8_CommandsOnlyWhenValidating ==
    /\ ~args.validate => executed = <<>>
    /\ \A k \in 1..Len(executed) :
          /\ <<executed[k].name, executed[k].match>> \in Pairs
          /\ RunsFor(executed[k].name, executed[k].match) = 1

\* C8 witness: a finished --manual run without --validate that printed a
\* manual test command and ran nothing.
C8_Witness ==
    /\ pc = "done"
    /\ ~args.validate
    /\ args.manual
    /\ LinesOf("manual") # {}
    /\ executed = <<>>

====
